---- MODULE Spec2Model ----
(***************************************************************************)
(* gopv: a progress tracker (Progress), its report scheduler (StartChan /  *)
(* StartCtx) and the text reporter (TextReporter).                         *)
(*                                                                         *)
(* Spec         one tracker, its producers and its scheduler goroutine,    *)
(*              interleaved with the clock and the caller's cancellation   *)
(* SpecFair     Spec with the fairness of the Go scheduler and of select,  *)
(*              the producers adding one item at a time                    *)
(* SpecSnapshot one tracker queried through Progress.Report between Adds   *)
(* SpecReporter text reporters built, configured, rendered and finalized   *)
(* SpecBar      TextReporter.renderProgressBar on its own                  *)
(* SpecConstruct the tracker from its construction on                      *)
(* SpecIO       the scheduler with a text reporter whose output can fail   *)
(* SpecQuery    Spec with a goroutine that calls the public Report()       *)
(* SpecEta      a started tracker with the totals and Adds of the ETA      *)
(* SpecPair     a tracker and its copy by WithReporter, both started       *)
(***************************************************************************)
EXTENDS Integers, Sequences, FiniteSets, TLC

(***************************************************************************)
(* Bounds of the model.                                                    *)
(***************************************************************************)
MaxAdds == 2
MaxClock == 3

\* arguments of Add: Add takes any int, negative ones included
AddArgs == {-1, 1, 2}
\* totals given to New
Totals == {3}

\* SpecSnapshot: the totals and the arguments of Add
SnapshotTotals == {1, 3, 100}
SnapshotArgs == {-1, 1, 29, 57, 100}

\* SpecReporter: the reporters allocated and the reports rendered in one run
MaxReporters == 2
MaxRenders == 2

\* the goroutines that call Progress.Report: the scheduler, and a caller of
\* the public query API
Threads == {"sched", "query"}

VARIABLES
    \* how the tracker under study came to be: the constructor called and
    \* the total given to it
    origin,
    \* Progress (part_002:9-19)
    total, done, startedAt, reportTime, lastReportedDone, lastReportedAt, doneCh,
    \* the cancellation signal handed to StartCtx / StartChan
    sigKind, sig,
    \* the scheduler goroutine: its position, and the deadline of the timer
    \* its select waits on
    schedPc, timer,
    \* one activation record of Progress.Report per calling goroutine, and
    \* the snapshot the call returned
    frame, snap,
    \* the Add calls the producers have still to make
    addsLeft,
    \* wall clock read by time.Now()
    clock,
    \* history: what was passed to Add, what the Reporter was asked to do
    sumAdded, reportCalls, finalizeCalls, preCancelled,
    \* the TextReporter values of the heap (part_003:73-84), the bufio.Writer
    \* values their writer fields point to, and what has reached each output
    reporters, writers, sinks,
    \* history: the lines each reporter rendered; a panic of the reporter
    lines, crashed,
    \* renderProgressBar on its own: the width, the ratio and the result
    barWidth, barRatio, barOut,
    \* the text reporter of the tracker and its output: the error its
    \* bufio.Writer holds (err), the writes that reached the output (sunk),
    \* the Report and Finalize calls it has run (reports, final), an error
    \* that came back to the scheduler (raised)
    textio,
    \* a tracker p and its copy q = p.WithReporter(r), as far as their
    \* completion signals go: the two Progress values, the channels of the
    \* heap, the goroutine and the cancellation signal of each tracker
    pair

vars == <<origin, total, done, startedAt, reportTime, lastReportedDone, lastReportedAt, doneCh,
          sigKind, sig, schedPc, timer, frame, snap, addsLeft, clock,
          sumAdded, reportCalls, finalizeCalls, preCancelled,
          reporters, writers, sinks, lines, crashed, barWidth, barRatio, barOut, textio,
          pair>>

\* groups used by UNCHANGED
reporterVars == <<reporters, writers, sinks, lines, crashed>>
barVars == <<barWidth, barRatio, barOut>>
trackerVars == <<origin, total, done, startedAt, reportTime, lastReportedDone, lastReportedAt,
                 doneCh, sigKind, sig, schedPc, timer, frame, snap, addsLeft, clock,
                 sumAdded, reportCalls, finalizeCalls, preCancelled, textio, pair>>
\* what no step of the tracker changes: the fields set at construction, and
\* the text reporter
constVars == <<origin, total, reportTime, reporterVars, barVars, textio, pair>>
\* everything but the pair of trackers
soloVars == <<origin, total, done, startedAt, reportTime, lastReportedDone, lastReportedAt,
              doneCh, sigKind, sig, schedPc, timer, frame, snap, addsLeft, clock,
              sumAdded, reportCalls, finalizeCalls, preCancelled, textio,
              reporterVars, barVars>>
signalVars == <<sigKind, sig>>
schedVars == <<schedPc, timer>>
callVars == <<frame, snap>>
histVars == <<sumAdded, reportCalls, finalizeCalls, preCancelled>>

\* the zero time.Time; the clock starts after it
ZeroTime == 0

\* no timer is pending
NoTimer == -1

\* the largest time.Duration: Time.Sub saturates at it, as it does for any
\* time taken from the zero Time (which lies more than 292 years back)
MaxDuration == 2147483647

\* t.Sub(u)
TimeSub(t, u) == IF u = ZeroTime /\ t # ZeroTime THEN MaxDuration ELSE t - u

(***************************************************************************)
(* float64 (IEEE 754 binary64, round to nearest even), as far as Report    *)
(* and renderProgressBar use it: the quotient of two integers, the product *)
(* with an integer, the conversion to int. A value is its sign s (0 for    *)
(* zero), the exponent e of its leading bit and its 53 significand bits m, *)
(* held as three limbs of 17, 18 and 18 bits:                              *)
(*      s * (m[1]*2^36 + m[2]*2^18 + m[3]) * 2^(e-52)                      *)
(* The operands of the model are integers below 2^13, which keeps every    *)
(* intermediate product inside TLC's 32-bit integers.                      *)
(***************************************************************************)
\* The operators below bind an intermediate result to its value before they
\* use it (the x \in {e} of a set constructor), so that it is computed once.
Only(S) == CHOOSE x \in S : TRUE

Pow2(k) == 2^k

\* the number of binary digits of n, 0 <= n < 2^30
BitLen(n) == CHOOSE b \in 0..30 : n < Pow2(b) /\ (b = 0 \/ n >= Pow2(b - 1))

Limb == Pow2(18)

F64Zero == [s |-> 0, e |-> 0, m |-> <<0, 0, 0>>]

\* the value with limbs q0, q1, q2 after a carry out of the last place
F64Norm(sgn, e, q0, q1, q2) ==
    LET l2 == q2 % Limb
        t1 == q1 + (q2 \div Limb)
        l1 == t1 % Limb
        l0 == q0 + (t1 \div Limb)
    IN IF l0 = Pow2(17) THEN [s |-> sgn, e |-> e + 1, m |-> <<Pow2(16), 0, 0>>]
       ELSE [s |-> sgn, e |-> e, m |-> <<l0, l1, l2>>]

\* round to nearest, ties to even: 1 when the kept bits go up
RoundUp(lastLimb, guard, rest) ==
    IF guard = 1 /\ (rest \/ lastLimb % 2 = 1) THEN 1 ELSE 0

\* the exponent of a / d for 0 < a, d < 2^13: the e with 2^e <= a/d < 2^(e+1)
QuotExp(a, d) ==
    CHOOSE e \in -14..14 :
        IF e >= 0 THEN d * Pow2(e) <= a /\ a < d * Pow2(e + 1)
        ELSE d <= a * Pow2(-e) /\ a * Pow2(-e) < 2 * d

\* 53 bits of num / den, 1 <= num / den < 2, by long division, then the
\* rounding
F64Div(sgn, e, num, den) ==
    LET q0 == (num * Pow2(16)) \div den
        r0 == (num * Pow2(16)) % den
        q1 == (r0 * Limb) \div den
        r1 == (r0 * Limb) % den
        q2 == (r1 * Limb) \div den
        r2 == (r1 * Limb) % den
        guard == (2 * r2) \div den
        rest == (2 * r2) % den > 0
    IN F64Norm(sgn, e, q0, q1, q2 + RoundUp(q2, guard, rest))

\* float64(n) / float64(t), t > 0
F64Quot(n, t) ==
    IF n = 0 THEN F64Zero
    ELSE Only({F64Div(IF n < 0 THEN -1 ELSE 1, e,
                      IF e < 0 THEN a * Pow2(-e) ELSE a,
                      IF e > 0 THEN t * Pow2(e) ELSE t)
               : <<a, e>> \in {<<v, QuotExp(v, t)>> : v \in {IF n < 0 THEN -n ELSE n}}})

\* the limbs of m times k, the first one not yet cut to its width
LimbProduct(m, k) ==
    LET p2 == m[3] * k
        p1 == m[2] * k + (p2 \div Limb)
    IN <<m[1] * k + (p1 \div Limb), p1 % Limb, p2 % Limb>>

\* -1, 0, 1 as a1:a2:a3 is below, equal to, above b1:b2:b3
Cmp3(a1, a2, a3, b1, b2, b3) ==
    IF a1 # b1 THEN (IF a1 < b1 THEN -1 ELSE 1)
    ELSE IF a2 # b2 THEN (IF a2 < b2 THEN -1 ELSE 1)
    ELSE IF a3 # b3 THEN (IF a3 < b3 THEN -1 ELSE 1)
    ELSE 0

\* the limbs of a - b, a >= b (the first limb of either not cut to its width)
Sub3(a, b) ==
    Only({<<x[1] - y[1] - (IF d2 < 0 THEN 1 ELSE 0), d2 % Limb, d3 % Limb>>
          : <<x, y, d2, d3>> \in
              {<<u, v, u[2] - v[2] - (IF w < 0 THEN 1 ELSE 0), w>>
               : <<u, v, w>> \in {<<u, v, u[3] - v[3]>> : <<u, v>> \in {<<a, b>>}}}})

\* a is below b
Less3(a, b) == \E x \in {a} : \E y \in {b} : Cmp3(x[1], x[2], x[3], y[1], y[2], y[3]) < 0

\* the long division takes 13 bits of the quotient at a time
DigitBase == Pow2(13)

\* the next digit of a long division by den, r the remainder so far times
\* DigitBase: the g with g * den <= r < (g + 1) * den. The first limbs
\* place it: it is r[1] / (den[1] + 1), or one more.
DivDigit(r, den) ==
    Only({IF Less3(r, LimbProduct(den, lo + 1)) THEN lo ELSE lo + 1
          : lo \in {r[1] \div (den[1] + 1)}})

\* k more digits of the quotient q of a division by den, r the remainder
\* so far (r < den)
RECURSIVE DivDigits(_, _, _, _)
DivDigits(r, q, den, k) ==
    IF k = 0 THEN [r |-> r, q |-> q]
    ELSE Only({DivDigits(r1, <<qb[1], qb[2], qb[3] + g>>, m, j)
               : <<r1, qb, g, m, j>> \in
                   {<<Sub3(w, LimbProduct(v, h)), u, h, v, i>>
                    : <<w, u, h, v, i>> \in
                        {<<w, u, DivDigit(w, v), v, i>>
                         : <<w, u, v, i>> \in
                             {<<LimbProduct(r, DigitBase), LimbProduct(q, DigitBase),
                                den, k - 1>>}}}})

\* float64(n) / x for a finite x # 0 and |n| < 2^13: the 53 bits of the
\* quotient of the two significands, the bit after them and the rounding
F64DivF(n, x) ==
    IF n = 0 THEN F64Zero
    ELSE Only({Only({F64Norm((IF n < 0 THEN -1 ELSE 1) * sx,
                             (IF below THEN bn - 2 ELSE bn - 1) - ex,
                             d.q[1], d.q[2],
                             d.q[3] + RoundUp(d.q[3], IF Less3(g, m) THEN 0 ELSE 1,
                                              g # <<0, 0, 0>> /\ g # m))
                     : <<d, g>> \in
                         {<<v, LimbProduct(v.r, 2)>>
                          : v \in {DivDigits(Sub3(LimbProduct(num, IF below THEN 2 ELSE 1), m),
                                             <<0, 0, 1>>, m, 4)}}})
               : <<num, bn, below, sx, ex, m>> \in
                   {<<w, b, Less3(w, y.m), y.s, y.e, y.m>>
                    : <<w, b, y>> \in
                        {<<<<a * Pow2(17 - c), 0, 0>>, c, z>>
                         : <<a, c, z>> \in
                             {<<v, BitLen(v), u>> : <<v, u>> \in {<<IF n < 0 THEN -n ELSE n, x>>}}}}})

\* float64(n), exact for the integers of the model
F64FromInt(n) == F64Quot(n, 1)

\* the product p shifted right by sh bits, back to 53 bits, and rounded
F64Shr(sgn, e, p, sh) ==
    LET S == Pow2(sh)
        q0 == p[1] \div S
        q1 == (p[1] % S) * (Limb \div S) + (p[2] \div S)
        q2 == (p[2] % S) * (Limb \div S) + (p[3] \div S)
        dropped == p[3] % S
        guard == IF sh = 0 THEN 0 ELSE dropped \div (S \div 2)
        rest == sh > 0 /\ dropped % (S \div 2) > 0
    IN F64Norm(sgn, e + sh, q0, q1, q2 + RoundUp(q2, guard, rest))

\* x * float64(k), 0 <= k < 2^12
F64MulInt(x, k) ==
    Only({IF v.s = 0 \/ k = 0 THEN F64Zero
          ELSE Only({F64Shr(v.s, v.e, p, sh)
                     : <<p, sh>> \in {<<w, BitLen(w[1]) - 17>> : w \in {LimbProduct(v.m, k)}}})
          : v \in {x}})

\* x has digits after the binary point (|x| < 2^30)
F64HasFraction(x) ==
    /\ x.s # 0
    /\ \/ x.e < 0
       \/ x.e <= 16 /\ (x.m[1] % Pow2(16 - x.e) # 0 \/ x.m[2] # 0 \/ x.m[3] # 0)
       \/ x.e > 16 /\ (x.m[2] % Pow2(34 - x.e) # 0 \/ x.m[3] # 0)

\* the integer part of |x| (|x| < 2^30)
F64IntPart(x) ==
    IF x.s = 0 \/ x.e < 0 THEN 0
    ELSE IF x.e <= 16 THEN x.m[1] \div Pow2(16 - x.e)
    ELSE x.m[1] * Pow2(x.e - 16) + (x.m[2] \div Pow2(34 - x.e))

\* the largest integer not above x
F64FloorInt(x) ==
    Only({IF v.s < 0 /\ F64HasFraction(v) THEN -F64IntPart(v) - 1 ELSE v.s * F64IntPart(v)
          : v \in {x}})

\* int(x): Go's conversion drops the fraction (truncates toward zero)
F64ToInt(x) == Only({v.s * F64IntPart(v) : v \in {x}})

\* x < 0
F64Negative(x) == x.s < 0

\* Report{} : the zero value of the snapshot
ZeroReport ==
    [Now |-> ZeroTime, StartedAt |-> ZeroTime, DT |-> 0, Total |-> 0, Done |-> 0,
     Left |-> 0, Ratio |-> F64Zero, PercentInt |-> 0, PercentFloat |-> F64Zero,
     Elapsed |-> 0, ETA |-> 0]

\* no call of Progress.Report is running. With the locals of the call
\* (now, dt, done, and delta, the done - p.lastReportedDone of the return
\* statement) a record holds what was passed to Add in all when the call
\* began (begun) and when it loaded done (sum), the same for the call the
\* goroutine made before (prev), and whether every Add had returned (quiet).
NoFrame ==
    [pc |-> "idle", now |-> 0, dt |-> 0, done |-> 0, delta |-> 0,
     begun |-> 0, sum |-> 0, prev |-> 0, quiet |-> FALSE]

(***************************************************************************)
(* Progress                                                                *)
(***************************************************************************)

\* var DefaultReportTime = time.Second, in units of the clock
DefaultReportTime == 1

\* the Progress value a nil pointer stands for: no tracker
NilProgress ==
    [total |-> 0, done |-> 0, startedAt |-> ZeroTime, reportTime |-> 0,
     lastReportedDone |-> 0, lastReportedAt |-> ZeroTime, doneCh |-> "nil"]

\* &Progress{total: ..., reportTime: ..., reporter: ..., doneCh: make(...)}
ProgressLiteral(t) ==
    [total |-> t, done |-> 0, startedAt |-> ZeroTime, reportTime |-> DefaultReportTime,
     lastReportedDone |-> 0, lastReportedAt |-> ZeroTime, doneCh |-> "open"]

\* New(total): the tracker it returns (ok), or its panic for a total that
\* is not above 0
NewUnchecked(t) == [ok |-> TRUE, p |-> ProgressLiteral(t)]
New(t) ==
    IF t <= 0 THEN [ok |-> FALSE, p |-> NilProgress]
    ELSE [ok |-> TRUE, p |-> ProgressLiteral(t)]

\* the tracker under study is p
TrackerIs(p) ==
    /\ total = p.total
    /\ done = p.done
    /\ startedAt = p.startedAt
    /\ reportTime = p.reportTime
    /\ lastReportedDone = p.lastReportedDone
    /\ lastReportedAt = p.lastReportedAt
    /\ doneCh = p.doneCh

\* atomic.AddInt64(&p.done, int64(done)): one indivisible read-modify-write.
\* The sums of the model stay far inside the int64 range.
OverwriteInt64(v, n) == n
SubtractInt64(v, n) == v - n
AtomicAddInt64(v, n) == v + n

\* atomic.LoadInt64(&p.done)
ZeroLoadInt64(v) == 0
AtomicLoadInt64(v) == v

\* every Add call of the execution has returned
Quiescent == addsLeft = 0

\* p.Add(n), called by any producer goroutine. Its whole body is the atomic
\* add, so concurrent producers are interleavings of this one step.
Add(n) ==
    /\ addsLeft > 0
    /\ done' = AtomicAddInt64(done, n)
    /\ addsLeft' = addsLeft - 1
    /\ sumAdded' = sumAdded + n
    /\ UNCHANGED <<constVars, startedAt, lastReportedDone, lastReportedAt, doneCh,
                   signalVars, schedVars, callVars, clock, reportCalls, finalizeCalls,
                   preCancelled>>

\* the Report value built by the return statement of Progress.Report
\* (on the 64-bit builds int is int64, and int(x) changes nothing), but for
\* the ETA, which ReportReturn adds. The three rates are not among the
\* fields modelled.
PercentFloor(ratio) == F64FloorInt(F64MulInt(ratio, 100))
PercentOf(ratio) == F64ToInt(F64MulInt(ratio, 100))
ReportOf(tot, started, now, dt, d) ==
    Only({[Now |-> now, StartedAt |-> started, DT |-> dt, Total |-> tot, Done |-> d,
           Left |-> tot - d, Ratio |-> ratio, PercentInt |-> PercentOf(ratio),
           PercentFloat |-> F64MulInt(ratio, 100), Elapsed |-> TimeSub(now, started)]
          : ratio \in {F64Quot(d, tot)}})
MakeReport(now, dt, d) == ReportOf(total, startedAt, now, dt, d)

\* time.Duration(x) of a float64 inside the range: the fraction is dropped
DurationFloor(x) == F64FloorInt(x)
DurationOf(x) == F64ToInt(x)

\* time.Duration(NaN) * time.Second, every result a build can give: the
\* conversion gives the smallest int64 on amd64 and 0 on arm64, and the
\* product of either is 0; it gives the largest int64 on riscv64, and the
\* product wraps to -1 second
DurationOfNaN == {0, -1}

\* rps and eta of Progress.Report, the eta in whole seconds, for the done
\* loaded and the whole seconds elapsed: every value the eta can have.
\* With no time elapsed rps is an infinity, or NaN (0 / 0); both differ
\* from 0. A tracker that was not started has the saturated elapsed time of
\* 292 years: its eta is beyond the durations of the model, and of either
\* sign once the product with time.Second has wrapped, which it has when
\* more is left than is done.
ETAOutcomes(tot, d, elapsed) ==
    IF elapsed = 0 THEN (IF d = 0 THEN DurationOfNaN ELSE {0})
    ELSE IF d = 0 THEN {0}
    ELSE IF elapsed = MaxDuration
    THEN (IF tot = d THEN {0}
          ELSE IF (tot - d) * (tot - d) > d * d THEN {MaxDuration, -MaxDuration}
          ELSE {IF (tot - d < 0) = (d < 0) THEN MaxDuration ELSE -MaxDuration})
    ELSE {DurationOf(F64DivF(tot - d, IF elapsed < 0 THEN F64Quot(-d, -elapsed)
                                      ELSE F64Quot(d, elapsed)))}

\* done - p.lastReportedDone, the items of the instantaneous rate
InstDeltaFromZero(d, last) == d
InstDelta(d, last) == d - last

\* who may enter Progress.Report now
MayCallReport(t) ==
    IF t = "sched"
    THEN schedPc = "report" /\ frame[t].pc = "idle"
    ELSE frame[t].pc \in {"idle", "returned"}

\* Progress.Report, up to the read of the clock and of lastReportedAt
ReportBegin(t) ==
    /\ MayCallReport(t)
    /\ IF total = 0
       THEN /\ frame' = [frame EXCEPT ![t] = [NoFrame EXCEPT !.pc = "returned"]]
            /\ snap' = [snap EXCEPT ![t] = ZeroReport]
       ELSE /\ frame' = [frame EXCEPT ![t] =
                           [pc |-> "load", now |-> clock, dt |-> TimeSub(clock, lastReportedAt),
                            done |-> 0, delta |-> 0, begun |-> sumAdded, sum |-> 0,
                            prev |-> frame[t].sum, quiet |-> Quiescent]]
            /\ snap' = snap
    /\ UNCHANGED <<constVars, done, startedAt, lastReportedDone, lastReportedAt, doneCh,
                   signalVars, schedVars, addsLeft, clock, histVars>>

\* Progress.Report: done := atomic.LoadInt64(&p.done)
ReportLoad(t) ==
    /\ frame[t].pc = "load"
    /\ frame' = [frame EXCEPT ![t].pc = "ret", ![t].done = AtomicLoadInt64(done),
                              ![t].sum = sumAdded]
    /\ UNCHANGED <<constVars, done, startedAt, lastReportedDone, lastReportedAt, doneCh,
                   signalVars, schedVars, snap, addsLeft, clock, histVars>>

\* Progress.Report: the return statement, then the deferred bookkeeping
ReportReturn(t) ==
    /\ frame[t].pc = "ret"
    /\ \E report \in {MakeReport(frame[t].now, frame[t].dt, frame[t].done)} :
           \E eta \in ETAOutcomes(report.Total, report.Done, report.Elapsed) :
               snap' = [snap EXCEPT ![t] = report @@ [ETA |-> eta]]
    /\ lastReportedDone' = frame[t].done
    /\ lastReportedAt' = frame[t].now
    /\ frame' = [frame EXCEPT ![t].pc = "returned",
                              ![t].delta = InstDelta(frame[t].done, lastReportedDone)]
    /\ UNCHANGED <<constVars, done, startedAt, doneCh, signalVars, schedVars, addsLeft,
                   clock, histVars>>

(***************************************************************************)
(* Construction                                                            *)
(***************************************************************************)

\* no constructor has been called: there is no tracker, and the variables
\* of its fields hold nothing
NoTracker ==
    /\ origin = [by |-> "none", arg |-> 0]
    /\ TrackerIs(NilProgress)

\* the constructors that return a tracker
Constructors == {"New", "NewTextWithLegend"}
Constructed == origin.by \in Constructors \cup {"WithReporter"}

\* p := New(t), or p := NewTextWithLegend(t, legend), which is
\* New(t).WithReporter(...): the tracker New returns (its copy), or the
\* panic of New, which leaves no tracker
Construct(by, t) ==
    /\ origin.by = "none"
    /\ \E r \in {New(t)} :
          /\ origin' = [by |-> IF r.ok THEN by ELSE "panic", arg |-> t]
          /\ total' = r.p.total
          /\ done' = r.p.done
          /\ startedAt' = r.p.startedAt
          /\ reportTime' = r.p.reportTime
          /\ lastReportedDone' = r.p.lastReportedDone
          /\ lastReportedAt' = r.p.lastReportedAt
          /\ doneCh' = r.p.doneCh
    /\ UNCHANGED <<reporterVars, barVars, textio, pair, signalVars, schedVars, callVars,
                   addsLeft, clock, histVars>>

\* q := p.WithReporter(r): cp := *p copies every field of the tracker, and
\* the tracker under study is the copy from now on
CallWithReporter ==
    /\ Constructed
    /\ origin' = [origin EXCEPT !.by = "WithReporter"]
    /\ UNCHANGED <<total, done, startedAt, reportTime, lastReportedDone, lastReportedAt,
                   doneCh, reporterVars, barVars, textio, pair, signalVars, schedVars,
                   callVars, addsLeft, clock, histVars>>

(***************************************************************************)
(* The scheduler                                                           *)
(***************************************************************************)

\* the first statement of the goroutine: p.reporter.Report(p.Report())
WaitFirst == "select"
FirstStep == "report"

\* the body shared by StartCtx and StartChan: the two assignments, then `go`
StartBody ==
    /\ schedPc = "unstarted"
    /\ startedAt' = clock
    /\ lastReportedAt' = clock
    /\ schedPc' = FirstStep
    /\ preCancelled' = (sig # "open")
    /\ UNCHANGED <<constVars, done, lastReportedDone, doneCh, signalVars, timer,
                   callVars, addsLeft, clock, sumAdded, reportCalls, finalizeCalls>>

\* StartChan(p, done) with a channel of the caller
StartChan == sigKind = "chan" /\ StartBody

\* StartCtx(p, ctx) == StartChan(p, ctx.Done())
StartCtx == sigKind = "ctx" /\ StartBody

\* p.reporter.Report(p.Report()): the snapshot is handed to the reporter; the
\* loop then enters select, whose time.After(p.reportTime) starts a timer
Emit ==
    /\ schedPc = "report"
    /\ frame["sched"].pc = "returned"
    /\ reportCalls' = reportCalls + 1
    /\ frame' = [frame EXCEPT !["sched"] = [NoFrame EXCEPT !.sum = frame["sched"].sum]]
    /\ snap' = [snap EXCEPT !["sched"] = ZeroReport]
    /\ schedPc' = "select"
    /\ timer' = clock + reportTime
    /\ UNCHANGED <<constVars, done, startedAt, lastReportedDone, lastReportedAt, doneCh,
                   signalVars, addsLeft, clock, sumAdded, finalizeCalls, preCancelled>>

\* the channel of time.After(p.reportTime) has a value
TimerAlwaysReady == TRUE
TimerReady == timer # NoTimer /\ clock >= timer

\* the done channel can be received from: it is closed or holds a value
DoneReadyWhenClosed == sig = "closed"
DoneAlwaysReady == TRUE
DoneReady == sig \in {"closed", "value"}

\* where the goroutine goes when the loop returns: the deferred function,
\* which calls Finalize and then, by its own defer, closes doneCh
CloseFirst == "close"
AfterLoop == "finalize"

\* case <-done: return
SelectDone ==
    /\ schedPc = "select"
    /\ DoneReady
    /\ sig' = IF sig = "value" THEN "taken" ELSE sig
    /\ schedPc' = AfterLoop
    /\ timer' = NoTimer
    /\ UNCHANGED <<constVars, done, startedAt, lastReportedDone, lastReportedAt, doneCh,
                   sigKind, callVars, addsLeft, clock, histVars>>

\* case <-time.After(p.reportTime): the next report
SelectTimer ==
    /\ schedPc = "select"
    /\ TimerReady
    /\ schedPc' = "report"
    /\ timer' = NoTimer
    /\ UNCHANGED <<constVars, done, startedAt, lastReportedDone, lastReportedAt, doneCh,
                   signalVars, callVars, addsLeft, clock, histVars>>

\* the deferred function: p.reporter.Finalize()
Finalize ==
    /\ schedPc = "finalize"
    /\ finalizeCalls' = finalizeCalls + 1
    /\ schedPc' = "close"
    /\ UNCHANGED <<constVars, done, startedAt, lastReportedDone, lastReportedAt, doneCh,
                   signalVars, timer, callVars, addsLeft, clock, sumAdded, reportCalls,
                   preCancelled>>

\* its own deferred call: close(p.doneCh)
CloseDoneCh ==
    /\ schedPc = "close"
    /\ doneCh' = "closed"
    /\ schedPc' = "exited"
    /\ UNCHANGED <<constVars, done, startedAt, lastReportedDone, lastReportedAt,
                   signalVars, timer, callVars, addsLeft, clock, histVars>>

(***************************************************************************)
(* The environment: the clock and the caller's cancellation                *)
(***************************************************************************)

Tick ==
    /\ clock < MaxClock
    /\ clock' = clock + 1
    /\ UNCHANGED <<constVars, done, startedAt, lastReportedDone, lastReportedAt, doneCh,
                   signalVars, schedVars, callVars, addsLeft, histVars>>

\* cancel() of the context, or close(ch)
CancelClose ==
    /\ sig = "open"
    /\ sig' = "closed"
    /\ UNCHANGED <<constVars, done, startedAt, lastReportedDone, lastReportedAt, doneCh,
                   sigKind, schedVars, callVars, addsLeft, clock, histVars>>

\* ch <- v: one value written to the channel given to StartChan
CancelSend ==
    /\ sigKind = "chan"
    /\ sig = "open"
    /\ sig' = "value"
    /\ UNCHANGED <<constVars, done, startedAt, lastReportedDone, lastReportedAt, doneCh,
                   sigKind, schedVars, callVars, addsLeft, clock, histVars>>

(***************************************************************************)
(* Strings, and the part of package fmt that TextReporter.Report uses      *)
(***************************************************************************)

\* the strings p[lo], ..., p[hi] one after the other
RECURSIVE JoinRange(_, _, _)
JoinRange(p, lo, hi) ==
    IF lo > hi THEN ""
    ELSE IF lo = hi THEN p[lo]
    ELSE JoinRange(p, lo, (lo + hi) \div 2) \o JoinRange(p, ((lo + hi) \div 2) + 1, hi)

Join(pieces) == Only({JoinRange(p, 1, Len(p)) : p \in {pieces}})

\* strings.Repeat(s, n) for n >= 0 (a negative n panics: see the callers)
Repeat(s, n) == Join([i \in 1..n |-> s])

\* old stands in s at position i
HasAt(s, i, old) ==
    /\ i + Len(old) - 1 <= Len(s)
    /\ SubSeq(s, i, i) = SubSeq(old, 1, 1)
    /\ SubSeq(s, i, i + Len(old) - 1) = old

\* strings.Contains(s, sub)
Contains(s, sub) == \E i \in 1..(Len(s) + 1) : HasAt(s, i, sub)

\* the occurrence of old at i is one strings.ReplaceAll replaces: it takes
\* the occurrences from left to right, none overlapping the one before
RECURSIVE Replaced(_, _, _)
Replaced(s, old, i) ==
    /\ HasAt(s, i, old)
    /\ \A j \in (i - Len(old) + 1)..(i - 1) : j < 1 \/ ~Replaced(s, old, j)

\* what position i of s contributes to the result, at being the positions
\* of the occurrences replaced
ReplacePiece(s, old, new, at, i) ==
    IF i \in at THEN new
    ELSE IF \E j \in at : j < i /\ i < j + Len(old) THEN ""
    ELSE SubSeq(s, i, i)

\* strings.ReplaceAll(s, old, new), old not empty
ReplaceAll(s, old, new) ==
    Only({Join([i \in 1..Len(v) |-> ReplacePiece(v, old, new, at, i)])
          : <<v, at>> \in {<<w, {i \in 1..Len(w) : Replaced(w, old, i)}>> : w \in {s}}})

\* strconv.Itoa
Itoa(n) == ToString(n)

\* n >= 0 in at least w decimal digits
PadDigits(n, w) == Repeat("0", w - Len(ToString(n))) \o ToString(n)

\* the decimal digit c stands for
DigitValue(c) == CHOOSE d \in 0..9 : ToString(d) = c
IsDigit(c) == \E d \in 0..9 : ToString(d) = c

\* the first position from i on that holds no digit
SkipDigits(s, i) ==
    CHOOSE j \in i..(Len(s) + 1) :
        /\ j = Len(s) + 1 \/ ~IsDigit(SubSeq(s, j, j))
        /\ \A k \in i..(j - 1) : IsDigit(SubSeq(s, k, k))

\* the positions of s that hold c
Positions(s, c) == {j \in 1..Len(s) : SubSeq(s, j, j) = c}

\* the first of the positions at from i on, n + 1 if there is none
FirstFrom(at, i, n) ==
    CHOOSE j \in at \cup {n + 1} : j >= i /\ \A k \in at : k >= i => j <= k

\* the number written in decimal digits at s[i..j-1]; 0 for no digit
RECURSIVE ParseDigits(_, _, _)
ParseDigits(s, i, j) ==
    IF j <= i THEN 0
    ELSE 10 * ParseDigits(s, i, j - 1) + DigitValue(SubSeq(s, j - 1, j - 1))

\* q, or q + 1 when the dropped part is above the half, or on it with q odd
RoundHalfEven(q, cmp) == IF cmp > 0 \/ (cmp = 0 /\ q % 2 = 1) THEN q + 1 ELSE q

\* (p[1]*2^36 + p[2]*2^18 + p[3]) / 2^t as an integer, ties to even; the
\* result is below 2^30 (t >= 18)
ShiftRound(p, t) ==
    IF t >= 66 THEN 0
    ELSE IF t >= 36
    THEN LET b == t - 36
         IN RoundHalfEven(p[1] \div Pow2(b),
                IF b = 0 THEN Cmp3(0, p[2], p[3], 0, Pow2(17), 0)
                ELSE Cmp3(p[1] % Pow2(b), p[2], p[3], Pow2(b - 1), 0, 0))
    ELSE LET b == t - 18
         IN RoundHalfEven(p[1] * Pow2(18 - b) + (p[2] \div Pow2(b)),
                IF b = 0 THEN Cmp3(0, 0, p[3], 0, 0, Pow2(17))
                ELSE Cmp3(0, p[2] % Pow2(b), p[3], 0, Pow2(b - 1), 0))

\* |x| * 10^prec as an integer, ties to even (prec <= 3, the result below
\* 2^30): the digits %.<prec>f prints
F64Scaled(x, prec) ==
    IF x.s = 0 THEN 0
    ELSE Only({ShiftRound(p, 52 - x.e) : p \in {LimbProduct(x.m, 10^prec)}})

\* strconv's 'f' format with prec digits after the point
FormatFloat(x, prec) ==
    Only({(IF x.s < 0 THEN "-" ELSE "") \o ToString(n \div 10^prec)
          \o (IF prec = 0 THEN "" ELSE "." \o PadDigits(n % 10^prec, prec))
          : n \in {F64Scaled(x, prec)}})

\* time.Time.Format("2006-01-02 03:04:05"). The instant t of the model's
\* clock is second t of 2023-12-02 01:01 (t < 60); ZeroTime is the zero Time.
FormatTime(t) ==
    IF t = ZeroTime THEN "0001-01-01 12:00:00"
    ELSE "2023-12-02 01:01:" \o PadDigits(t, 2)

\* time.Duration.String() of d whole seconds, |d| below a day; the
\* saturated difference prints as the largest Duration
RECURSIVE FormatDuration(_)
FormatDuration(d) ==
    IF d = MaxDuration THEN "2562047h47m16.854775807s"
    ELSE IF d < 0 THEN "-" \o FormatDuration(-d)
    ELSE IF d < 60 THEN ToString(d) \o "s"
    ELSE IF d < 3600 THEN ToString(d \div 60) \o "m" \o ToString(d % 60) \o "s"
    ELSE ToString(d \div 3600) \o "h" \o ToString((d % 3600) \div 60) \o "m"
         \o ToString(d % 60) \o "s"

\* one operand under its verb: %s of a string, %d of an int, %.<prec>f of a
\* float64
FormatOperand(v, verb, prec) ==
    IF verb = "s" THEN v
    ELSE IF verb = "d" THEN ToString(v)
    ELSE FormatFloat(v, prec)

\* what fmt prints for a format that ends in a lone %
NoVerb == "%!(NOVERB)"
\* stands for the output of a directive other than %%, %[n]s, %[n]d and
\* %.<prec>[n]f with the operand of its type; no legend of the model has one
Unmodelled == "%!(?)"

\* fmt.Sprintf(format, a...) from the % at position i on. Every directive
\* carries its operand index, so no operand is consumed in order, and a
\* format with an indexed directive gets no %!(EXTRA ...) suffix.
RECURSIVE SprintfFrom(_, _, _, _)
RECURSIVE SprintfText(_, _, _, _)
\* the text up to the next %, then the directives; pc holds the positions
\* of the % signs of f
SprintfText(f, pc, i, a) ==
    Only({SubSeq(f, i, j - 1) \o SprintfFrom(f, pc, j, a) : j \in {FirstFrom(pc, i, Len(f))}})
SprintfFrom(f, pc, i, a) ==
    IF i > Len(f) THEN ""
    ELSE IF i = Len(f) THEN NoVerb
    ELSE IF HasAt(f, i + 1, "%") THEN "%" \o SprintfText(f, pc, i + 2, a)
    ELSE LET precAt == IF HasAt(f, i + 1, ".") THEN i + 2 ELSE i + 1
             open == SkipDigits(f, precAt)
             close == SkipDigits(f, open + 1)
             verb == SubSeq(f, close + 1, close + 1)
             n == ParseDigits(f, open + 1, close)
         IN IF /\ HasAt(f, open, "[") /\ close > open + 1 /\ HasAt(f, close, "]")
               /\ n \in DOMAIN a
               /\ \/ verb \in {"s", "d"} /\ precAt = i + 1 /\ a[n].verb = verb
                  \/ verb = "f" /\ open > precAt /\ precAt = i + 2 /\ a[n].verb = verb
            THEN FormatOperand(a[n].v, verb, ParseDigits(f, precAt, open))
                 \o SprintfText(f, pc, close + 2, a)
            ELSE Unmodelled

Sprintf(format, a) ==
    Only({SprintfText(f, pc, 1, a) : <<f, pc>> \in {<<g, Positions(g, "%")>> : g \in {format}}})

(***************************************************************************)
(* TextReporter (part_003)                                                 *)
(***************************************************************************)
TextReporterLegendDefault ==
    "[{now}] - working ({done}/{total}) done {percent_int}%%, RPS {rps_avg}, elapsed {elapsed}, ETA {eta}\r"
TextReporterLegendProgressBar == "{progress_bar} {percent_int}%%, {rps_avg} RPS, {eta} ETA\r"
TextReporterDefaultFloatPrecision == 2
TextReporterDefaultProgressBarWidth == 80

\* os.Stderr, and a buffer of the caller's
Stderr == "stderr"
Outputs == {Stderr, "buf"}

\* the nil *bufio.Writer; any other value is an index into writers
NilWriter == 0

NewTextReporter ==
    [legend |-> TextReporterLegendDefault,
     floatPrecision |-> TextReporterDefaultFloatPrecision,
     output |-> Stderr,
     pbWidth |-> TextReporterDefaultProgressBarWidth,
     legendCompiled |-> "", writer |-> NilWriter, lastLegendLength |-> 0]

\* cp := *r; return &cp. The assignment copies every field of the struct,
\* the three runtime fields with the four of the configuration.
clone(r) ==
    [legend |-> r.legend, floatPrecision |-> r.floatPrecision, output |-> r.output,
     pbWidth |-> r.pbWidth,
     legendCompiled |-> r.legendCompiled, writer |-> r.writer,
     lastLegendLength |-> r.lastLegendLength]

WithLegend(r, legend) == [clone(r) EXCEPT !.legend = legend]
WithFloatPrecision(r, floatPrecision) == [clone(r) EXCEPT !.floatPrecision = floatPrecision]
WithOutput(r, output) == [clone(r) EXCEPT !.output = output]
WithProgressBarWidth(r, width) == [clone(r) EXCEPT !.pbWidth = width]

\* compileLegend: fifteen replacements of a placeholder by its directive,
\* then one of {float_precision} by the precision
compileLegend(format, floatPrecision) ==
    LET f1 == ReplaceAll(format, "{now}", "%[1]s")
        f2 == ReplaceAll(f1, "{started_at}", "%[2]s")
        f3 == ReplaceAll(f2, "{dt}", "%[3]s")
        f4 == ReplaceAll(f3, "{total}", "%[4]d")
        f5 == ReplaceAll(f4, "{done}", "%[5]d")
        f6 == ReplaceAll(f5, "{left}", "%[6]d")
        f7 == ReplaceAll(f6, "{ratio}", "%.{float_precision}[7]f")
        f8 == ReplaceAll(f7, "{percent_int}", "%[8]d")
        f9 == ReplaceAll(f8, "{percent_float}", "%.{float_precision}[9]f")
        f10 == ReplaceAll(f9, "{elapsed}", "%[10]s")
        f11 == ReplaceAll(f10, "{eta}", "%[11]s")
        f12 == ReplaceAll(f11, "{rps_avg}", "%.{float_precision}[12]f")
        f13 == ReplaceAll(f12, "{rps_inst}", "%.{float_precision}[13]f")
        f14 == ReplaceAll(f13, "{rpm}", "%.{float_precision}[14]f")
        f15 == ReplaceAll(f14, "{progress_bar}", "%[15]s")
    IN ReplaceAll(f15, "{float_precision}", Itoa(floatPrecision))

\* The int of the model is 30 bits wide: it stands for Go's 64-bit int
\* wherever a value leaves the range.
MinInt == -Pow2(29)
MaxInt == Pow2(29) - 1
WrapInt(n) == ((n + Pow2(29)) % Pow2(30)) - Pow2(29)

\* float64(1 << k)
F64Pow2(k) == [s |-> 1, e |-> k, m |-> <<Pow2(16), 0, 0>>]

\* int(x), every result a build can give. A value int64 cannot hold (2^63
\* and above) converts to an implementation-dependent int: the smallest int
\* on amd64, the nearest int on arm64. A value from 2^29 on that int64 holds
\* is the largest int of the model, or the smallest.
F64ToIntOutcomes(x) ==
    IF x.s # 0 /\ x.e >= 63 THEN {MinInt, IF x.s > 0 THEN MaxInt ELSE MinInt}
    ELSE IF x.s # 0 /\ x.e >= 29 THEN {IF x.s > 0 THEN MaxInt ELSE MinInt}
    ELSE {F64ToInt(x)}

\* renderProgressBar from the value int(ratio * float64(progressBarWidth))
\* took. strings.Repeat panics on a negative count.
ProgressBarOf(progressBarWidth, converted) ==
    LET fillChars == IF converted > progressBarWidth THEN progressBarWidth ELSE converted
        spaces == WrapInt(progressBarWidth - fillChars)
        fillSpaces == IF spaces < 0 THEN 0 ELSE spaces
    IN IF fillChars < 0 THEN [ok |-> FALSE, bar |-> ""]
       ELSE [ok |-> TRUE,
             bar |-> "[" \o Repeat("#", fillChars) \o Repeat("-", fillSpaces) \o "]"]

\* TextReporter.renderProgressBar: the results it can have, a returned
\* string (ok) or a panic
renderProgressBar(pbWidth, reportRatio) ==
    LET ratio == IF F64Negative(reportRatio) THEN F64Zero ELSE reportRatio
        progressBarWidth == pbWidth - 2
    IN IF progressBarWidth <= 0 THEN {[ok |-> TRUE, bar |-> ""]}
       ELSE {ProgressBarOf(progressBarWidth, c)
             : c \in F64ToIntOutcomes(F64MulInt(ratio, progressBarWidth))}

\* the fifteen operands of the Sprintf call of TextReporter.Report. The
\* durations of the model are whole seconds, which Round leaves as they are.
Operands(report, progressBar) ==
    LET eta == IF report.ETA <= 0 THEN 0 ELSE report.ETA
    IN << [verb |-> "s", v |-> FormatTime(report.Now)],
          [verb |-> "s", v |-> FormatTime(report.StartedAt)],
          [verb |-> "s", v |-> FormatDuration(report.DT)],
          [verb |-> "d", v |-> report.Total],
          [verb |-> "d", v |-> report.Done],
          [verb |-> "d", v |-> report.Left],
          [verb |-> "f", v |-> report.Ratio],
          [verb |-> "d", v |-> report.PercentInt],
          [verb |-> "f", v |-> report.PercentFloat],
          [verb |-> "s", v |-> FormatDuration(report.Elapsed)],
          [verb |-> "s", v |-> FormatDuration(eta)],
          [verb |-> "f", v |-> report.RPSAvg],
          [verb |-> "f", v |-> report.RPSInst],
          [verb |-> "f", v |-> report.RPMAvg],
          [verb |-> "s", v |-> progressBar] >>

\* Report values handed to a reporter: the snapshot of a tracker of total 3
\* started at second 1 and asked at second 3, with the rates and the ETA of
\* a Report that has done items behind it
SampleReport(d, eta) ==
    ReportOf(3, 1, 3, 1, d) @@
    [ETA |-> eta, RPSAvg |-> F64Quot(d, 2), RPSInst |-> F64Quot(d, 1),
     RPMAvg |-> F64MulInt(F64Quot(d, 2), 60)]
SampleReports == {SampleReport(0, 0), SampleReport(1, 4), SampleReport(3, 0)}

\* the legends, precisions, outputs and widths given to the builders
SampleLegends ==
    {TextReporterLegendProgressBar, "{done} of {total} {float_precision} {unknown}", ""}
SamplePrecisions == {0}
SampleWidths == {10}

\* the calls made so far on the reporters of the heap
Calls == LET RECURSIVE Sum(_)
             Sum(i) == IF i = 0 THEN 0 ELSE Len(lines[i]) + Sum(i - 1)
         IN Sum(Len(lines))

\* a reporter can enter the heap: the &TextReporter{...} of NewTextReporter,
\* the &cp of clone
CanAllocate == ~crashed /\ Len(reporters) < MaxReporters

\* r := NewTextReporter()
CallNewTextReporter ==
    /\ CanAllocate
    /\ reporters' = Append(reporters, NewTextReporter)
    /\ lines' = Append(lines, <<>>)
    /\ UNCHANGED <<writers, sinks, crashed, trackerVars, barVars>>

\* r.WithLegend(legend) on reporter i
CallWithLegend(i, legend) ==
    /\ CanAllocate
    /\ reporters' = Append(reporters, WithLegend(reporters[i], legend))
    /\ lines' = Append(lines, <<>>)
    /\ UNCHANGED <<writers, sinks, crashed, trackerVars, barVars>>

\* r.WithFloatPrecision(p)
CallWithFloatPrecision(i, p) ==
    /\ CanAllocate
    /\ reporters' = Append(reporters, WithFloatPrecision(reporters[i], p))
    /\ lines' = Append(lines, <<>>)
    /\ UNCHANGED <<writers, sinks, crashed, trackerVars, barVars>>

\* r.WithOutput(o)
CallWithOutput(i, o) ==
    /\ CanAllocate
    /\ reporters' = Append(reporters, WithOutput(reporters[i], o))
    /\ lines' = Append(lines, <<>>)
    /\ UNCHANGED <<writers, sinks, crashed, trackerVars, barVars>>

\* r.WithProgressBarWidth(w)
CallWithProgressBarWidth(i, w) ==
    /\ CanAllocate
    /\ reporters' = Append(reporters, WithProgressBarWidth(reporters[i], w))
    /\ lines' = Append(lines, <<>>)
    /\ UNCHANGED <<writers, sinks, crashed, trackerVars, barVars>>

\* TextReporter.Report
CallReport(i, report) ==
    /\ ~crashed
    /\ Calls < MaxRenders
    /\ LET r == reporters[i]
           first == r.legendCompiled = ""
           compiled == IF first THEN compileLegend(r.legend, r.floatPrecision)
                       ELSE r.legendCompiled
           ws == IF first THEN Append(writers, [out |-> r.output, by |-> i]) ELSE writers
           w == IF first THEN Len(ws) ELSE r.writer
       IN \E pb \in renderProgressBar(r.pbWidth, report.Ratio) :
            /\ writers' = ws
            /\ IF pb.ok
               THEN LET legend == Sprintf(compiled, Operands(report, pb.bar))
                        lineLength == Len(legend)
                        spaces == IF r.lastLegendLength > lineLength
                                  THEN Repeat(" ", r.lastLegendLength - lineLength)
                                  ELSE ""
                    IN /\ reporters' = [reporters EXCEPT ![i] =
                                           [r EXCEPT !.legendCompiled = compiled,
                                                     !.writer = w,
                                                     !.lastLegendLength = lineLength]]
                       /\ sinks' = [sinks EXCEPT ![ws[w].out] = @ \o legend \o spaces]
                       /\ lines' = [lines EXCEPT ![i] =
                                       Append(@, [op |-> "Report", text |-> legend,
                                                  pad |-> spaces])]
                       /\ crashed' = crashed
               ELSE /\ reporters' = [reporters EXCEPT ![i] =
                                        [r EXCEPT !.legendCompiled = compiled, !.writer = w]]
                    /\ crashed' = TRUE
                    /\ UNCHANGED <<sinks, lines>>
    /\ UNCHANGED <<trackerVars, barVars>>

\* TextReporter.Finalize: a nil writer is dereferenced by WriteString
CallFinalize(i) ==
    /\ ~crashed
    /\ Calls < MaxRenders
    /\ IF reporters[i].writer = NilWriter
       THEN /\ crashed' = TRUE
            /\ UNCHANGED <<sinks, lines>>
       ELSE /\ sinks' = [sinks EXCEPT ![writers[reporters[i].writer].out] = @ \o "\n"]
            /\ lines' = [lines EXCEPT ![i] = Append(@, [op |-> "Finalize", text |-> "\n", pad |-> ""])]
            /\ crashed' = crashed
    /\ UNCHANGED <<reporters, writers, trackerVars, barVars>>

\* bufio.Writer.Flush of the line buffered, on a Writer that holds the
\* error err and an output whose Write fails or not: a Writer that has
\* seen an error writes nothing more and returns the error again
WriterFlush(err, fails) == [err |-> err \/ fails, sunk |-> ~err /\ ~fails]

\* what the caller gets to see of the error that WriteString or Flush
\* returned: writeString and flush assign it to the blank identifier
Propagate(err) == err
Discard(err) == FALSE

TextIdle == [err |-> FALSE, sunk |-> 0, reports |-> 0, final |-> FALSE, raised |-> FALSE]

\* the writes of one call of the reporter of the tracker
TextWrite(final) ==
    \E fails \in BOOLEAN : \E w \in {WriterFlush(textio.err, fails)} :
        textio' = [err |-> w.err,
                   sunk |-> textio.sunk + IF w.sunk THEN 1 ELSE 0,
                   reports |-> textio.reports + IF final THEN 0 ELSE 1,
                   final |-> final,
                   raised |-> Discard(w.err)]

\* p.reporter.Report(...) of the goroutine, with a TextReporter: the line
\* is buffered and flushed
TextReport ==
    /\ schedPc = "report"
    /\ frame["sched"].pc = "returned"
    /\ textio.reports = reportCalls
    /\ ~textio.raised
    /\ TextWrite(FALSE)
    /\ UNCHANGED <<origin, total, reportTime, reporterVars, barVars, pair, done, startedAt,
                   lastReportedDone, lastReportedAt, doneCh, signalVars, schedVars,
                   callVars, addsLeft, clock, histVars>>

\* p.reporter.Finalize() of the deferred function, with a TextReporter
TextFinalize ==
    /\ schedPc = "finalize"
    /\ ~textio.final
    /\ ~textio.raised
    /\ TextWrite(TRUE)
    /\ UNCHANGED <<origin, total, reportTime, reporterVars, barVars, pair, done, startedAt,
                   lastReportedDone, lastReportedAt, doneCh, signalVars, schedVars,
                   callVars, addsLeft, clock, histVars>>

\* renderProgressBar called on its own
BarPending == [st |-> "pending", bar |-> ""]
RenderBar ==
    /\ barOut = BarPending
    /\ \E pb \in renderProgressBar(barWidth, barRatio) :
           barOut' = [st |-> IF pb.ok THEN "returned" ELSE "panic", bar |-> pb.bar]
    /\ UNCHANGED <<barWidth, barRatio, trackerVars, reporterVars>>

\* the widths and the ratios renderProgressBar is called with
BarWidths == {-1, 0, 2, 3, 4, 10, 12, 80}
BarRatios == {F64Quot(-1, 3), F64Zero, F64Quot(1, 3), F64Quot(1, 2), F64Quot(2, 3),
              F64Quot(1, 1), F64Quot(3, 2), F64Pow2(62)}

(***************************************************************************)
(* A tracker and its copy                                                  *)
(***************************************************************************)

\* no tracker made
NoPair == [trackers |-> <<>>, channels |-> <<>>, scheds |-> <<>>, faulted |-> FALSE]

\* the goroutine of a tracker that was not started, its signal not fired,
\* and the caller of the tracker, who has still to wait for Done()
NotStarted == [pc |-> "unstarted", sig |-> "open", finalized |-> FALSE, waiter |-> "waiting"]

\* cp := *p; cp.reporter = r: every other field of the copy is p's, its
\* doneCh the same channel
WithReporter(p, r) == [p EXCEPT !.reporter = r]

\* p.Done() is readable: the channel it returns is closed
DoneFired(i) == pair.channels[pair.trackers[i].doneCh] = "closed"

\* <-p.Done() of the caller of tracker i returns; the history keeps whether
\* the reporter of the tracker had been finalized by then
PairWaitDone(i) ==
    /\ ~pair.faulted /\ i \in DOMAIN pair.trackers
    /\ pair.scheds[i].waiter = "waiting"
    /\ DoneFired(i)
    /\ pair' = [pair EXCEPT !.scheds[i].waiter =
                               IF pair.scheds[i].finalized THEN "released" ELSE "early"]
    /\ UNCHANGED soloVars

\* a step of the program: no goroutine has panicked
PairStep(i) == ~pair.faulted /\ i \in DOMAIN pair.trackers

\* p := New(total): make(chan struct{}) gives it a channel of its own
PairNew ==
    /\ pair.trackers = <<>>
    /\ pair' = [pair EXCEPT !.channels = Append(@, "open"),
                            !.trackers = <<[doneCh |-> Len(pair.channels) + 1,
                                            reporter |-> "text"]>>,
                            !.scheds = <<NotStarted>>]
    /\ UNCHANGED soloVars

\* q := p.WithReporter(r)
PairWithReporter ==
    /\ PairStep(1)
    /\ Len(pair.trackers) = 1
    /\ pair' = [pair EXCEPT !.trackers = Append(@, WithReporter(pair.trackers[1], "custom")),
                            !.scheds = Append(@, NotStarted)]
    /\ UNCHANGED soloVars

\* StartCtx(p, ctx), once for a tracker: the goroutine is at its first Report
PairStart(i) ==
    /\ PairStep(i)
    /\ pair.scheds[i].pc = "unstarted"
    /\ pair' = [pair EXCEPT !.scheds[i].pc = "report"]
    /\ UNCHANGED soloVars

\* p.reporter.Report(p.Report()), then the select
PairReport(i) ==
    /\ PairStep(i)
    /\ pair.scheds[i].pc = "report"
    /\ pair' = [pair EXCEPT !.scheds[i].pc = "select"]
    /\ UNCHANGED soloVars

\* case <-time.After(p.reportTime)
PairTimer(i) ==
    /\ PairStep(i)
    /\ pair.scheds[i].pc = "select"
    /\ pair' = [pair EXCEPT !.scheds[i].pc = "report"]
    /\ UNCHANGED soloVars

\* the caller cancels the context of tracker i
PairCancel(i) ==
    /\ PairStep(i)
    /\ pair.scheds[i].sig = "open"
    /\ pair' = [pair EXCEPT !.scheds[i].sig = "closed"]
    /\ UNCHANGED soloVars

\* case <-done: return
PairSelectDone(i) ==
    /\ PairStep(i)
    /\ pair.scheds[i].pc = "select"
    /\ pair.scheds[i].sig = "closed"
    /\ pair' = [pair EXCEPT !.scheds[i].pc = "finalize"]
    /\ UNCHANGED soloVars

\* the deferred function: p.reporter.Finalize()
PairFinalize(i) ==
    /\ PairStep(i)
    /\ pair.scheds[i].pc = "finalize"
    /\ pair' = [pair EXCEPT !.scheds[i].pc = "close", !.scheds[i].finalized = TRUE]
    /\ UNCHANGED soloVars

\* its own deferred call: close(p.doneCh). The close of a closed channel
\* panics, in a goroutine where nothing recovers: the program ends.
PairClose(i) ==
    /\ PairStep(i)
    /\ pair.scheds[i].pc = "close"
    /\ IF DoneFired(i)
       THEN pair' = [pair EXCEPT !.faulted = TRUE]
       ELSE pair' = [pair EXCEPT !.channels[pair.trackers[i].doneCh] = "closed",
                                 !.scheds[i].pc = "exited"]
    /\ UNCHANGED soloVars

(***************************************************************************)
(* The specifications                                                      *)
(***************************************************************************)

\* a tracker out of New, not started; the caller holds a context or a channel
TrackerInit(totals, kinds) ==
    /\ \E t \in totals :
          /\ New(t).ok
          /\ TrackerIs(New(t).p)
          /\ origin = [by |-> "New", arg |-> t]
    /\ sigKind \in kinds
    /\ sig = "open"
    /\ schedPc = "unstarted"
    /\ timer = NoTimer
    /\ frame = [t \in Threads |-> NoFrame]
    /\ snap = [t \in Threads |-> ZeroReport]
    /\ addsLeft = MaxAdds
    /\ clock = 1
    /\ sumAdded = 0
    /\ reportCalls = 0
    /\ finalizeCalls = 0
    /\ preCancelled = FALSE
    /\ pair = NoPair

\* no reporter allocated, nothing written
ReporterInit ==
    /\ reporters = <<>>
    /\ writers = <<>>
    /\ sinks = [o \in Outputs |-> ""]
    /\ lines = <<>>
    /\ crashed = FALSE

\* renderProgressBar not under study, nothing written by the reporter of
\* the tracker
BarIdle ==
    /\ textio = TextIdle
    /\ barWidth = 0
    /\ barRatio = F64Zero
    /\ barOut = BarPending

Init ==
    /\ TrackerInit(Totals, {"ctx", "chan"})
    /\ ReporterInit
    /\ BarIdle

Next ==
    \/ \E n \in AddArgs : Add(n)
    \/ ReportBegin("sched")
    \/ ReportLoad("sched")
    \/ ReportReturn("sched")
    \/ StartChan
    \/ StartCtx
    \/ Emit
    \/ SelectDone
    \/ SelectTimer
    \/ Finalize
    \/ CloseDoneCh
    \/ Tick
    \/ CancelClose
    \/ CancelSend

Spec == Init /\ [][Next]_vars

\* The Go scheduler runs a runnable goroutine eventually (weak fairness of
\* each step of the scheduler goroutine); a select with several ready arms
\* picks one uniformly at random, so an arm that is ready again and again
\* is taken eventually (strong fairness of the done arm). Nothing makes
\* the caller start, cancel or add.
SchedFairness ==
    /\ WF_vars(ReportBegin("sched"))
    /\ WF_vars(ReportLoad("sched"))
    /\ WF_vars(ReportReturn("sched"))
    /\ WF_vars(Emit)
    /\ SF_vars(SelectDone)
    /\ WF_vars(Finalize)
    /\ WF_vars(CloseDoneCh)

\* Whether the scheduler shuts down does not depend on what is added: the
\* producers of SpecFair add one item at a time.
FairArgs == {1}

NextFair ==
    \/ \E n \in FairArgs : Add(n)
    \/ ReportBegin("sched")
    \/ ReportLoad("sched")
    \/ ReportReturn("sched")
    \/ StartChan
    \/ StartCtx
    \/ Emit
    \/ SelectDone
    \/ SelectTimer
    \/ Finalize
    \/ CloseDoneCh
    \/ Tick
    \/ CancelClose
    \/ CancelSend

SpecFair == Init /\ [][NextFair]_vars /\ SchedFairness

\* One goroutine adds, and asks the tracker through the public Report().
InitSnapshot ==
    /\ TrackerInit(SnapshotTotals, {"ctx"})
    /\ ReporterInit
    /\ BarIdle

NextSnapshot ==
    \/ \E n \in SnapshotArgs : Add(n)
    \/ ReportBegin("query")
    \/ ReportLoad("query")
    \/ ReportReturn("query")
    \/ Tick

SpecSnapshot == InitSnapshot /\ [][NextSnapshot]_vars

\* A tracker and the copy WithReporter made of it, each started once and
\* each with a context of its own.
NextPair ==
    \/ PairNew
    \/ PairWithReporter
    \/ \E i \in {1, 2} : PairStart(i)
    \/ \E i \in {1, 2} : PairReport(i)
    \/ \E i \in {1, 2} : PairTimer(i)
    \/ \E i \in {1, 2} : PairCancel(i)
    \/ \E i \in {1, 2} : PairSelectDone(i)
    \/ \E i \in {1, 2} : PairFinalize(i)
    \/ \E i \in {1, 2} : PairClose(i)
    \/ \E i \in {1, 2} : PairWaitDone(i)

InitPair ==
    /\ TrackerInit(Totals, {"ctx"})
    /\ ReporterInit
    /\ BarIdle

SpecPair == InitPair /\ [][NextPair]_vars

\* A started tracker with totals and Adds that give the ETA a fraction.
EtaTotals == {3, 100}
EtaArgs == {-1, 2, 57}

InitEta ==
    /\ TrackerInit(EtaTotals, {"ctx"})
    /\ ReporterInit
    /\ BarIdle

NextEta ==
    \/ \E n \in EtaArgs : Add(n)
    \/ ReportBegin("sched")
    \/ ReportLoad("sched")
    \/ ReportReturn("sched")
    \/ StartCtx
    \/ Emit
    \/ SelectDone
    \/ SelectTimer
    \/ Finalize
    \/ CloseDoneCh
    \/ Tick
    \/ CancelClose

SpecEta == InitEta /\ [][NextEta]_vars

\* The program from before the constructor: the totals given to it, then
\* everything Spec does with the tracker it returned.
NewArgs == {-1, 0, 3}

InitConstruct ==
    /\ NoTracker
    /\ sigKind \in {"ctx"}
    /\ sig = "open"
    /\ schedPc = "unstarted"
    /\ timer = NoTimer
    /\ frame = [t \in Threads |-> NoFrame]
    /\ snap = [t \in Threads |-> ZeroReport]
    /\ addsLeft = MaxAdds
    /\ clock = 1
    /\ sumAdded = 0
    /\ reportCalls = 0
    /\ finalizeCalls = 0
    /\ preCancelled = FALSE
    /\ pair = NoPair
    /\ ReporterInit
    /\ BarIdle

NextConstruct ==
    \/ \E by \in Constructors, t \in NewArgs : Construct(by, t)
    \/ CallWithReporter
    \/ Constructed /\ \E n \in AddArgs : Add(n)
    \/ Constructed /\ ReportBegin("sched")
    \/ Constructed /\ ReportLoad("sched")
    \/ Constructed /\ ReportReturn("sched")
    \/ Constructed /\ StartCtx
    \/ Constructed /\ Emit
    \/ Constructed /\ SelectDone
    \/ Constructed /\ SelectTimer
    \/ Constructed /\ Finalize
    \/ Constructed /\ CloseDoneCh
    \/ Tick
    \/ CancelClose

SpecConstruct == InitConstruct /\ [][NextConstruct]_vars

\* The scheduler of a tracker whose reporter is a TextReporter: each call
\* of the reporter is the writes it makes, any of which the output may
\* fail, and then the return to the goroutine. The fairness is that of
\* SpecFair, and the calls of the reporter run to their end.
NextIO ==
    \/ ReportBegin("sched")
    \/ ReportLoad("sched")
    \/ ReportReturn("sched")
    \/ StartChan
    \/ StartCtx
    \/ TextReport
    \/ (textio.reports = reportCalls + 1 /\ ~textio.raised) /\ Emit
    \/ SelectDone
    \/ SelectTimer
    \/ TextFinalize
    \/ (textio.final /\ ~textio.raised) /\ Finalize
    \/ CloseDoneCh
    \/ Tick
    \/ CancelClose
    \/ CancelSend

IOFairness ==
    /\ WF_vars(ReportBegin("sched"))
    /\ WF_vars(ReportLoad("sched"))
    /\ WF_vars(ReportReturn("sched"))
    /\ WF_vars(TextReport)
    /\ WF_vars((textio.reports = reportCalls + 1 /\ ~textio.raised) /\ Emit)
    /\ SF_vars(SelectDone)
    /\ WF_vars(TextFinalize)
    /\ WF_vars((textio.final /\ ~textio.raised) /\ Finalize)
    /\ WF_vars(CloseDoneCh)

SpecIO == Init /\ [][NextIO]_vars /\ IOFairness

\* The tracker, its producers and its scheduler, and one more goroutine of
\* the program that asks for a snapshot through the public Report().
InitQuery ==
    /\ TrackerInit(Totals, {"ctx"})
    /\ ReporterInit
    /\ BarIdle

NextQuery ==
    \/ \E n \in AddArgs : Add(n)
    \/ ReportBegin("sched")
    \/ ReportLoad("sched")
    \/ ReportReturn("sched")
    \/ frame["query"].pc = "idle" /\ ReportBegin("query")
    \/ ReportLoad("query")
    \/ ReportReturn("query")
    \/ StartCtx
    \/ Emit
    \/ SelectDone
    \/ SelectTimer
    \/ Finalize
    \/ CloseDoneCh
    \/ Tick
    \/ CancelClose

SpecQuery == InitQuery /\ [][NextQuery]_vars

\* Text reporters on their own: built, configured, rendered, finalized.
InitReporter ==
    /\ TrackerInit(Totals, {"ctx"})
    /\ ReporterInit
    /\ BarIdle

NextReporter ==
    \/ CallNewTextReporter
    \/ \E i \in DOMAIN reporters, legend \in SampleLegends : CallWithLegend(i, legend)
    \/ \E i \in DOMAIN reporters, p \in SamplePrecisions : CallWithFloatPrecision(i, p)
    \/ \E i \in DOMAIN reporters, o \in Outputs : CallWithOutput(i, o)
    \/ \E i \in DOMAIN reporters, w \in SampleWidths : CallWithProgressBarWidth(i, w)
    \/ \E i \in DOMAIN reporters, report \in SampleReports : CallReport(i, report)
    \/ \E i \in DOMAIN reporters : CallFinalize(i)

SpecReporter == InitReporter /\ [][NextReporter]_vars

\* renderProgressBar applied to one width and one ratio.
InitBar ==
    /\ TrackerInit(Totals, {"ctx"})
    /\ ReporterInit
    /\ barWidth \in BarWidths
    /\ barRatio \in BarRatios
    /\ barOut = BarPending
    /\ textio = TextIdle

NextBar == RenderBar

SpecBar == InitBar /\ [][NextBar]_vars

(***************************************************************************)
(* The claims                                                              *)
(***************************************************************************)

\* C1: once every Add call has returned, a Report() that starts afterwards
\* returns Done equal to the sum of all the arguments passed to Add,
\* whatever the interleaving of the producers and the scheduler was.
C1_NoLostUpdates ==
    \A t \in Threads :
        (frame[t].pc = "returned" /\ frame[t].quiet) => snap[t].Done = sumAdded

C1_Witness ==
    /\ frame["sched"].pc = "returned"
    /\ frame["sched"].quiet
    /\ snap["sched"].Done = 3
    /\ reportCalls >= 1

C3_ShutdownLive ==
    (schedPc # "unstarted" /\ sig \in {"closed", "value"})
        ~> (doneCh = "closed" /\ finalizeCalls = 1)

C3_Witness == sig = "taken" /\ doneCh = "closed" /\ sigKind = "chan"

\* C4: the scheduler emits one report before it waits on anything, so a
\* Reporter.Report call precedes Finalize(), also when the signal had fired
\* before the tracker was started.
C4_ReportBeforeWait ==
    /\ schedPc \in {"select", "finalize", "close", "exited"} => reportCalls >= 1
    /\ finalizeCalls >= 1 => reportCalls >= 1

C4_Witness == preCancelled /\ finalizeCalls = 1 /\ reportCalls = 1

\* C5 as claimed: whenever the scheduler leaves its select while the done
\* channel is ready, it leaves through the done arm.
C5_CancelAlwaysWins ==
    [][(schedPc = "select" /\ sig \in {"closed", "value"})
         => schedPc' \in {"select", "finalize"}]_vars

\* C5 as amended: with the done channel ready and the timer not yet expired
\* the scheduler leaves its select through the done arm (with both ready,
\* select may take either).
C5_CancelWinsPendingTimer ==
    [][(schedPc = "select" /\ sig \in {"closed", "value"} /\ clock < timer)
         => schedPc' \in {"select", "finalize"}]_vars

C5_Witness == schedPc = "select" /\ sig = "closed" /\ clock < timer /\ reportCalls = 2

\* C6 as claimed: done never decreases and is never negative.
C6_DoneMonotone == [][done' >= done /\ done' >= 0]_vars

\* C6 as amended: done is the sum of the arguments of the Add calls made, so
\* it decreases only by an Add with a negative argument and never across an
\* Add(n) with n >= 0.
C6_DoneFollowsAdds ==
    [][/\ done' - done = sumAdded' - sumAdded
       /\ sumAdded' >= sumAdded => done' >= done]_vars

C6_Witness == done = 4 /\ sumAdded = 4 /\ addsLeft = 0

\* the runtime fields of a reporter are as NewTextReporter leaves them
RuntimeEmpty(r) ==
    r.legendCompiled = "" /\ r.writer = NilWriter /\ r.lastLegendLength = 0

\* C7: a reporter that has rendered nothing yet, the result of a builder
\* called on a reporter that has rendered included, has no compiled legend,
\* no writer and last-line length 0; and once a reporter has rendered, its
\* template is its own legend compiled and its writer writes to its own
\* output.
C7_BuilderResultIsFresh ==
    \A i \in DOMAIN reporters :
        /\ lines[i] = <<>> => RuntimeEmpty(reporters[i])
        /\ (lines[i] # <<>> /\ lines[i][1].op = "Report") =>
              /\ reporters[i].legendCompiled =
                     compileLegend(reporters[i].legend, reporters[i].floatPrecision)
              /\ writers[reporters[i].writer].out = reporters[i].output

\* brace-delimited tokens that are none of the fifteen documented ones
OtherTokens == {"{float_precision}", "{unknown}"}

\* C8: for a reporter whose template is its legend compiled and that has
\* rendered, every brace-delimited token of the legend other than the
\* fifteen placeholders stands unchanged in the template and in each line
\* rendered.
C8_OtherTokensUnchanged ==
    \A i \in DOMAIN reporters :
        (/\ lines[i] # <<>>
         /\ reporters[i].legendCompiled =
                compileLegend(reporters[i].legend, reporters[i].floatPrecision)) =>
            \A tok \in OtherTokens :
                Contains(reporters[i].legend, tok) =>
                    /\ Contains(reporters[i].legendCompiled, tok)
                    /\ \A k \in DOMAIN lines[i] :
                           lines[i][k].op = "Report" => Contains(lines[i][k].text, tok)

\* floor(max(ratio, 0) * n) clamped to [0, n]
SpecifiedFill(n, ratio) ==
    IF ratio.s <= 0 THEN 0
    ELSE Only({IF p.e >= 29 \/ F64FloorInt(p) > n THEN n ELSE F64FloorInt(p)
               : p \in {F64MulInt(ratio, n)}})

\* the bar the specification describes
SpecifiedBar(width, ratio) ==
    IF width <= 2 THEN ""
    ELSE Only({"[" \o Repeat("#", f) \o Repeat("-", width - 2 - f) \o "]"
               : f \in {SpecifiedFill(width - 2, ratio)}})

\* C9: for every width and every ratio renderProgressBar returns the bar of
\* the specification: empty for a width of 2 or less, otherwise [, f times #,
\* width-2-f times -, and ], with f = floor(max(ratio,0)*(width-2)) clamped to
\* [0, width-2].
C9_BarAsSpecified ==
    barOut.st # "pending" =>
        barOut = [st |-> "returned", bar |-> SpecifiedBar(barWidth, barRatio)]

\* C9, short of the ratios whose product with width-2 leaves the int range
\* (2^63 and above): renderProgressBar returns the bar of the specification,
\* width characters long.
C9_BarWhenConvertible ==
    (barOut.st # "pending" /\ (barWidth <= 2 \/ barRatio.e + BitLen(barWidth) < 63)) =>
        /\ barOut = [st |-> "returned", bar |-> SpecifiedBar(barWidth, barRatio)]
        /\ barWidth > 2 => Len(barOut.bar) = barWidth

\* C10 as stated: in every snapshot Report() returned, Ratio is done/total,
\* PercentInt is the floor of Ratio*100 and Left is total - done.
C10_PercentIsFloor ==
    \A t \in Threads :
        frame[t].pc = "returned" =>
            /\ snap[t].Ratio = F64Quot(snap[t].Done, snap[t].Total)
            /\ snap[t].PercentInt = F64FloorInt(F64MulInt(snap[t].Ratio, 100))
            /\ snap[t].Left = snap[t].Total - snap[t].Done

\* C10 amended: in every snapshot Report() returned, Done is the value
\* loaded, Ratio is the float64 quotient done/total, Left is total - done,
\* and PercentInt is the float64 product Ratio*100 with its fraction dropped
\* (rounded toward zero): for done >= 0 it is floor(100*done/total) or one
\* below it, for done < 0 it is the ceiling of 100*done/total or one above.
C10_PercentIsTruncation ==
    \A t \in Threads :
        frame[t].pc = "returned" =>
            /\ snap[t].Done = frame[t].done
            /\ snap[t].Total = total
            /\ snap[t].Ratio = F64Quot(snap[t].Done, snap[t].Total)
            /\ snap[t].PercentInt = F64ToInt(F64MulInt(snap[t].Ratio, 100))
            /\ snap[t].Left = snap[t].Total - snap[t].Done
            /\ snap[t].Done >= 0 =>
                  /\ snap[t].PercentInt * total <= 100 * snap[t].Done
                  /\ 100 * snap[t].Done < (snap[t].PercentInt + 2) * total
            /\ snap[t].Done < 0 =>
                  /\ (snap[t].PercentInt - 2) * total < 100 * snap[t].Done
                  /\ 100 * snap[t].Done <= snap[t].PercentInt * total

\* a snapshot of a negative done: -1 of 3 is -33 percent, 4 left
C10_Witness ==
    /\ frame["query"].pc = "returned"
    /\ snap["query"].Done = -1
    /\ snap["query"].Total = 3
    /\ snap["query"].PercentInt = -33
    /\ snap["query"].Left = 4

\* C11: New (and NewTextWithLegend, which calls it) with a total of 0 or
\* less panics and leaves no tracker; a tracker that exists, out of New,
\* NewTextWithLegend or WithReporter, has the total given to New, which is
\* positive, no step changes it, and no call of Report() takes the branch
\* for a total of 0 (every return of Report comes from its return statement
\* at the end).
C11_TotalPositiveFixed ==
    [][/\ Constructed' => (total' = origin'.arg /\ total' > 0)
       /\ Constructed => (Constructed' /\ total' = total)
       /\ origin'.by = "panic" <=> (origin'.arg <= 0 /\ origin'.by # "none")
       /\ origin'.by = "panic" => (total' = 0 /\ doneCh' = "nil" /\ schedPc' = "unstarted")
       /\ \A t \in Threads :
              (frame'[t] # frame[t] /\ frame'[t].pc = "returned") => frame[t].pc = "ret"]_vars

\* a copy of a tracker of total 3 has been started and has reported twice,
\* the second time with done above total
C11_Witness ==
    /\ origin = [by |-> "WithReporter", arg |-> 3]
    /\ total = 3
    /\ done = 4
    /\ reportCalls = 2
    /\ schedPc = "exited"

\* C12: a failed write of the text reporter never comes back to the
\* scheduler and never stops it: with the error in the writer, a report
\* the scheduler is at is still handed to the reporter, and a cancellation
\* that has fired still leads to the one Finalize() and to the close of
\* the completion channel.
C12_FailureNeverStops ==
    /\ [](~textio.raised)
    /\ \A n \in 0..(MaxClock + 1) :
          (textio.err /\ schedPc = "report" /\ reportCalls = n) ~> (reportCalls = n + 1)
    /\ (textio.err /\ schedPc # "unstarted" /\ sig \in {"closed", "value"})
          ~> (doneCh = "closed" /\ finalizeCalls = 1 /\ textio.final)

\* the first write failed, nothing reached the output, and the scheduler
\* reported again on the timer, finalized and closed the channel
C12_Witness ==
    /\ textio.err
    /\ textio.sunk = 0
    /\ reportCalls = 2
    /\ finalizeCalls = 1
    /\ doneCh = "closed"

\* C13: while the scheduler runs, the step of Report() that stores
\* lastReportedDone and lastReportedAt (its deferred function) is taken by
\* the scheduler goroutine only, whoever else adds or asks for a snapshot.
C13_OnlySchedulerWrites ==
    [][\A t \in Threads :
          (/\ schedPc \in {"report", "select"}
           /\ frame[t].pc = "ret" /\ frame'[t].pc = "returned"
           /\ lastReportedDone' = frame[t].done /\ lastReportedAt' = frame[t].now)
              => t = "sched"]_vars

\* C14: with one goroutine asking, each Report() stores the done and the
\* time it used, so lastReportedDone and lastReportedAt are the Done and
\* the Now of the latest snapshot; the delta of a snapshot is the sum of
\* the arguments of the Adds between the loads of the snapshot before and
\* of this one; and a Report() that follows another with no Add between
\* returns the same Done, delta 0, and dt counted from the call before.
C14_ReportStoresWhatItUsed ==
    /\ [](snap["query"].Total # 0 =>
             /\ lastReportedDone = snap["query"].Done
             /\ lastReportedAt = snap["query"].Now)
    /\ [][(frame["query"].pc = "ret" /\ frame'["query"].pc = "returned") =>
             /\ frame'["query"].delta = frame["query"].sum - frame["query"].prev
             /\ (snap["query"].Total # 0 /\ frame["query"].sum = frame["query"].prev) =>
                   /\ snap'["query"].Done = snap["query"].Done
                   /\ frame'["query"].delta = 0
                   /\ snap'["query"].DT = snap'["query"].Now - snap["query"].Now]_vars

\* after an Add(1), two calls of Report() one second apart with no Add
\* between: the second has Done 1 again, delta 0 and dt 1
C14_Witness ==
    /\ frame["query"].pc = "returned"
    /\ frame["query"].sum = 1
    /\ frame["query"].prev = 1
    /\ frame["query"].delta = 0
    /\ snap["query"].Done = 1
    /\ snap["query"].DT = 1

\* the last of the positions in at that lie before j, 0 if there is none
LastBefore(at, j) == CHOOSE c \in at \cup {0} : c < j /\ \A d \in at : d < j => d <= c

\* What a terminal that overwrites in place shows on its line after the
\* characters of s: a carriage return takes the cursor to the first column,
\* any other character is put at the cursor and moves it one column on.
\* Column c shows the last character that was put there.
Shown(s) ==
    Only({Join([c \in 1..Len(col) |-> IF col[c] = 0 THEN "" ELSE SubSeq(v, col[c], col[c])])
          : <<v, col>> \in
              {<<w, [c \in 1..Len(w) |->
                        CHOOSE j \in 0..Len(w) :
                            /\ j = 0 \/ (j \notin crs /\ j - LastBefore(crs, j) = c)
                            /\ \A k \in (j + 1)..Len(w) :
                                   k \in crs \/ k - LastBefore(crs, k) # c]>>
               : <<w, crs>> \in {<<u, Positions(u, "\r")>> : u \in {s}}}})

\* everything reporter i has written with its first k calls
Written(i, k) == Join([j \in 1..k |-> lines[i][j].text \o lines[i][j].pad])

\* C15: when a reporter whose lines end with a carriage return renders a
\* line shorter than the line before, the terminal shows the new line
\* whole, from the first column on, and after it nothing but spaces.
C15_ShorterLineClearsOld ==
    \A i \in DOMAIN lines : \A k \in 2..Len(lines[i]) :
        (/\ lines[i][k].op = "Report"
         /\ lines[i][k - 1].op = "Report"
         /\ Len(lines[i][k].text) < Len(lines[i][k - 1].text)
         /\ HasAt(lines[i][k].text, Len(lines[i][k].text), "\r")
         /\ HasAt(lines[i][k - 1].text, Len(lines[i][k - 1].text), "\r")) =>
            \E shown \in {Shown(Written(i, k))} : \E n \in {Len(lines[i][k].text) - 1} :
                /\ SubSeq(shown, 1, n) = SubSeq(lines[i][k].text, 1, n)
                /\ \A c \in (n + 1)..Len(shown) : SubSeq(shown, c, c) \in {" ", ""}

\* a / b with the fraction dropped (b # 0)
Truncated(a, b) ==
    (IF (a < 0) = (b < 0) THEN 1 ELSE -1)
        * ((IF a < 0 THEN -a ELSE a) \div (IF b < 0 THEN -b ELSE b))

\* k is a whole number nearest to a / b (b # 0): 2 * |a - k * b| <= |b|
Nearest(k, a, b) ==
    \E d \in {2 * (a - k * b)} : (IF d < 0 THEN -d ELSE d) <= (IF b < 0 THEN -b ELSE b)

\* the snapshot the scheduler's Report returned, of a tracker started
\* before the call read the clock
EtaSnapshot(r) == frame["sched"].pc = "returned" /\ r = snap["sched"] /\ r.Total > 0

C17_CompiledOnce ==
    \A i \in DOMAIN reporters :
        Cardinality({w \in DOMAIN writers : writers[w].by = i}) <= 1

\* C18: the completion signal of a tracker is its own. Of a tracker p and
\* q = p.WithReporter(r), each started once with a context of its own, the
\* Done() of either is readable only after its own scheduler has called
\* Finalize, and no scheduler panics by closing a channel already closed.
C18_DoneIsOwn ==
    /\ ~pair.faulted
    /\ \A i \in DOMAIN pair.trackers :
           /\ DoneFired(i) => pair.scheds[i].finalized
           /\ pair.scheds[i].waiter # "early"

\* the scheduler's call of Report has loaded done
SchedLoaded == frame["sched"].pc \in {"ret", "returned"}

\* C19 as stated, its bounds: the Done of a snapshot is at least the sum of
\* the Adds that had returned when the call began and at most the sum of
\* the Adds invoked before it returned.
C19_DoneWithinBounds ==
    SchedLoaded => /\ frame["sched"].begun <= frame["sched"].done
                   /\ frame["sched"].done <= sumAdded

\* C19, amended: the Done of a snapshot is the value the counter held at
\* the load of the call, the sum of the arguments of the Adds applied by
\* then, and the snapshot handed to the reporter carries it. So it is not
\* below what had been added when the call began unless the Adds applied
\* since sum to less than 0, and not above what has been added by the
\* return unless the Adds applied after the load do. The Done of two
\* successive scheduler reports differ by the sum of the arguments of the
\* Adds applied between the two loads: it does not decrease when none of
\* them is negative.
C19_DoneIsCounterAtLoad ==
    \A f \in {frame["sched"]} :
        SchedLoaded =>
            /\ f.done = f.sum
            /\ f.sum >= f.begun => f.done >= f.begun
            /\ sumAdded >= f.sum => f.done <= sumAdded
            /\ f.pc = "returned" => snap["sched"].Done = f.done
            /\ f.pc = "ret" =>
                  /\ f.done - lastReportedDone = f.sum - f.prev
                  /\ f.sum >= f.prev => f.done >= lastReportedDone

\* a Report that began with 1 added, loaded done after an Add(2), and
\* returned a snapshot with Done 3
C19_Witness ==
    /\ frame["sched"].pc = "returned"
    /\ frame["sched"].begun = 1
    /\ snap["sched"].Done = 3
    /\ sumAdded = 3

====
